---- MODULE Spec2Model ----
(***************************************************************************)
(* Model of the portfolio page's two pieces of client-side logic:          *)
(*   - VideoComponent (hero video sizer) together with the HomePage        *)
(*     callback it reports its height to;                                  *)
(*   - ExpertiseItem (hover / in-view playback controller);                *)
(*   - the footer video of HomePage (in-view looping playback);            *)
(*   - App (page navigation) with the ProjectDetail header state.          *)
(* Numbers that the code computes as floats (the aspect ratio, the height) *)
(* are kept as exact reduced fractions <<numerator, denominator>>.         *)
(***************************************************************************)
EXTENDS Integers, Sequences, FiniteSets, TLC

VARIABLES
    \* browser environment read by updateDimensions
    viewportWidth,      \* window.innerWidth
    textContainer,      \* document.querySelector('.hero-content')?.parentElement
    \* VideoComponent
    mounted,            \* the component (and the HomePage around it) is mounted
    videoAspectRatio,   \* useState<number | null>
    dimensions,         \* useState({width, height})
    renderedDimensions, \* dimensions as of the last committed render
    effectRatio,        \* videoAspectRatio captured by the last run of the geometry effect
    resizeListener,     \* window 'resize' -> handleResize is registered
    observerConnected,  \* the ResizeObserver observes the container
    observerOwes,       \* the ResizeObserver has a notification to deliver (after
                        \* observe(), after the container's box changed)
    rafQueue,           \* requestAnimationFrame callbacks waiting for the next frame
    frameQueue,         \* callbacks of the frame being run
    videoStyle,         \* inline width/height of the <video> element
    \* HomePage
    heroHeight,         \* useState<number | null>
    blurBgHeight,       \* blurBgRef.current.style.height
    heroSectionHeight,  \* heroSectionRef.current.style.height
    homeRenderPending,  \* a HomePage state change awaits its re-render
    \* observation of the run (not program state)
    pass,               \* what the updateDimensions pass of the last step did
    notify,             \* the last onHeightChange call and how often it repeated
    framePasses,        \* passes / callback calls in the current frame
    \* ExpertiseItem
    itemMounted,        \* the item is mounted (videoRef.current is the element)
    isHovered,          \* useState(false)
    hasPlayedOnce,      \* useState(false)
    isInView,           \* useState(false)
    rendered,           \* the state values captured by the last committed render
    observerInitial,    \* a new IntersectionObserver owes its first notification
    intersecting,       \* the container is within the observer's threshold
    video,              \* the <video> element: loop, paused, position, readyState
    endedEvent,         \* an 'ended' event is queued
    timers,             \* pending setTimeout callbacks of onLoadedMetadata
    last,               \* the handler run by the last step and its play() request
    hoverHistory,       \* observation: "none" before any pointer-leave, "resting" since
                        \* a pointer-leave with no pointer-enter or viewport entry
                        \* (the container comes into view, or is reported in view
                        \* for the first time) after it, "left" otherwise
    \* HomePage footer
    footerMounted,      \* HomePage is mounted (footerVideoRef.current is the element)
    footerIntersecting, \* the footer section is within the observer's margin
    footerObserverInitial, \* the footer observer owes its first notification
    isFooterInView,     \* useState(false)
    footerVideo,        \* the footer <video> element
    tryPlayTimers,      \* pending setTimeout(tryPlay, ...) callbacks
    metadataTimers,     \* pending setTimeout callbacks of the footer's onLoadedMetadata
    footerLast,         \* the footer handler run by the last step, its play() request
                        \* and the number of timers it set
    \* App and ProjectDetail
    currentPage,        \* useState('home')
    selectedProject,    \* useState<string | null>(null): {} is null, {id} is id
    windowScrollY,      \* window.scrollY
    scrollEvent,        \* a 'scroll' event is queued
    detail              \* ProjectDetail's state while it is mounted

videoVars == <<viewportWidth, textContainer, mounted, videoAspectRatio, dimensions,
               renderedDimensions, effectRatio, resizeListener, observerConnected,
               observerOwes, rafQueue, frameQueue, videoStyle, heroHeight,
               blurBgHeight, heroSectionHeight, homeRenderPending, pass, notify,
               framePasses>>

itemVars == <<itemMounted, isHovered, hasPlayedOnce, isInView, rendered,
              observerInitial, intersecting, video, endedEvent, timers, last,
              hoverHistory>>

footerVars == <<footerMounted, footerIntersecting, footerObserverInitial, isFooterInView,
                footerVideo, tryPlayTimers, metadataTimers, footerLast>>

appVars == <<currentPage, selectedProject, windowScrollY, scrollEvent, detail>>

vars == <<videoVars, itemVars, footerVars, appVars>>

-----------------------------------------------------------------------------
(* Bounds of the model *)

MaxPending == 2     \* animation-frame callbacks that may wait at once
MaxRepeat == 2      \* the repeat count of notify saturates here
MaxTimers == 2      \* setTimeout callbacks of one kind that may wait at once

-----------------------------------------------------------------------------
(* Arithmetic on reduced fractions *)

Min(a, b) == IF a < b THEN a ELSE b

RECURSIVE GCD(_, _)
GCD(a, b) == IF b = 0 THEN a ELSE GCD(b, a % b)

Rat(n, d) == LET g == GCD(n, d) IN <<n \div g, d \div g>>

Null == <<0, 0>>                \* null (no fraction has denominator 0)
Zero == <<0, 1>>
Positive(r) == r[1] > 0 /\ r[2] > 0

\* w / ratio, for an integer w and a fraction ratio
Quotient(w, ratio) == Rat(w * ratio[2], ratio[1])

\* x * 1.2
Enlarged(r) == Rat(r[1] * 6, r[2] * 5)

\* CSS lengths: `${x}px`, '95%', 'auto'
Px(r) == <<"px", r[1], r[2]>>
Percent95 == <<"%", 95, 1>>
Auto == <<"auto", 0, 1>>

-----------------------------------------------------------------------------
(* Strings as sequences of characters *)

Str1180 == <<"1", "1", "8", "0">>
Str1180px == <<"1", "1", "8", "0", "p", "x">>
Str11800px == <<"1", "1", "8", "0", "0", "p", "x">>
StrNone == <<"n", "o", "n", "e">>

\* String.prototype.includes
includes(s, sub) ==
    \E i \in 1..(Len(s) - Len(sub) + 1) : SubSeq(s, i, i + Len(sub) - 1) = sub

-----------------------------------------------------------------------------
(* Inputs *)

Viewports == {820, 1440}
\* videoWidth x videoHeight reported with a loadedmetadata event
Intrinsics == {<<0, 0>>, <<1920, 1080>>, <<1280, 960>>}

\* the text column: absent, or its measured width and computed max-width
NoContainer == [found |-> FALSE, width |-> 0, maxWidth |-> <<>>]
Column(w, m) == [found |-> TRUE, width |-> w, maxWidth |-> m]
Containers ==
    {NoContainer,
     Column(0, Str1180px), Column(0, StrNone),
     Column(820, Str1180px), Column(820, Str11800px), Column(820, StrNone),
     Column(1180, Str1180px), Column(1252, Str1180px)}

NoPass == [ran |-> FALSE, ratio |-> Null, width |-> 0, height |-> Zero,
           published |-> FALSE]

-----------------------------------------------------------------------------
(* VideoComponent.updateDimensions *)

contentMaxWidth == 1180

belowOrAtMax(actualContentWidth) == actualContentWidth <= contentMaxWidth

belowMax(actualContentWidth) == actualContentWidth < contentMaxWidth

maxWidthGuard(maxWidth) == maxWidth = Str1180px \/ includes(maxWidth, Str1180)

\* actualContentWidth after the lookup of the text container
resolveWidth(tc, vw) ==
    IF tc.found
    THEN IF belowMax(tc.width) /\ maxWidthGuard(tc.maxWidth)
         THEN Min(vw, contentMaxWidth)
         ELSE tc.width
    ELSE Min(vw, contentMaxWidth)

computeHeightInverted(finalWidth, ratio) == Rat(finalWidth * ratio[1], ratio[2])

computeHeight(finalWidth, ratio) == Quotient(finalWidth, ratio)

validSizeNonNegative(finalWidth, finalHeight) == finalWidth >= 0 /\ finalHeight[1] >= 0

validSize(finalWidth, finalHeight) == finalWidth > 0 /\ Positive(finalHeight)

\* the updater passed to setDimensions
setDimensions(prev, finalWidth, finalHeight) ==
    IF prev.width = finalWidth /\ prev.height = finalHeight
    THEN prev
    ELSE [width |-> finalWidth, height |-> finalHeight]

\* the callback as it would be if setHeroHeight never bailed out
onHeightChangeAlwaysRenders(height) ==
    /\ IF mounted
       THEN /\ blurBgHeight' = Px(height)
            /\ heroHeight' = height
            /\ heroSectionHeight' = Px(height)
            /\ homeRenderPending' = TRUE
            /\ observerOwes' = (observerOwes \/
                                (observerConnected /\ heroSectionHeight # Px(height)))
       ELSE UNCHANGED <<blurBgHeight, heroHeight, heroSectionHeight, homeRenderPending,
                        observerOwes>>

\* HomePage's onHeightChange; the refs are null and setHeroHeight is a no-op
\* once HomePage is unmounted
onHeightChange(height) ==
    /\ IF mounted
       THEN /\ blurBgHeight' = Px(height)
            /\ heroHeight' = height
            /\ heroSectionHeight' = Px(height)
            /\ homeRenderPending' = (homeRenderPending \/ heroHeight # height)
            /\ observerOwes' = (observerOwes \/
                                (observerConnected /\ heroSectionHeight # Px(height)))
       ELSE UNCHANGED <<blurBgHeight, heroHeight, heroSectionHeight, homeRenderPending,
                        observerOwes>>

Bump(n) == IF n < MaxRepeat THEN n + 1 ELSE MaxRepeat

\* one pass of updateDimensions with the videoAspectRatio of its closure
updateDimensions(ratio) ==
    LET finalWidth == resolveWidth(textContainer, viewportWidth)
        finalHeight == IF ratio = Null THEN Zero ELSE computeHeight(finalWidth, ratio)
    IN  IF ratio # Null /\ validSize(finalWidth, finalHeight)
        THEN /\ dimensions' = IF mounted
                              THEN setDimensions(dimensions, finalWidth, finalHeight)
                              ELSE dimensions
             /\ videoStyle' = [width |-> Px(<<finalWidth, 1>>), height |-> Px(finalHeight)]
             /\ onHeightChange(finalHeight)
             /\ notify' = [called |-> TRUE, width |-> finalWidth, height |-> finalHeight,
                           count |-> IF /\ notify.called
                                        /\ notify.width = finalWidth
                                        /\ notify.height = finalHeight
                                     THEN Bump(notify.count) ELSE 1]
             /\ framePasses' = [passes |-> framePasses.passes + 1,
                                calls |-> framePasses.calls + 1]
             /\ pass' = [ran |-> TRUE, ratio |-> ratio, width |-> finalWidth,
                         height |-> finalHeight, published |-> TRUE]
        ELSE /\ UNCHANGED <<dimensions, videoStyle, blurBgHeight, heroHeight,
                            heroSectionHeight, homeRenderPending, notify, observerOwes>>
             /\ framePasses' = [framePasses EXCEPT !.passes = @ + 1]
             /\ pass' = [ran |-> TRUE, ratio |-> ratio, width |-> finalWidth,
                         height |-> finalHeight, published |-> FALSE]

-----------------------------------------------------------------------------
(* Animation frames *)

\* requestAnimationFrame(cb): cb is the updateDimensions of a closure, named
\* by the ratio the closure captured
requestAnimationFrame(queue, ratio) == Append(queue, ratio)

\* the browser starts a frame: the callbacks requested so far will run
BeginFrame ==
    /\ frameQueue = <<>>
    /\ rafQueue # <<>>
    /\ frameQueue' = rafQueue
    /\ rafQueue' = <<>>
    /\ framePasses' = [passes |-> 0, calls |-> 0]
    /\ pass' = NoPass
    /\ UNCHANGED observerOwes
    /\ UNCHANGED <<itemVars, footerVars, appVars>>
    /\ UNCHANGED <<viewportWidth, textContainer, mounted, videoAspectRatio, dimensions,
                   renderedDimensions, effectRatio, resizeListener, observerConnected,
                   videoStyle, heroHeight, blurBgHeight, heroSectionHeight, homeRenderPending, notify>>

\* the next callback of the running frame
RunFrameCallback ==
    /\ frameQueue # <<>>
    /\ updateDimensions(Head(frameQueue))
    /\ frameQueue' = Tail(frameQueue)
    /\ UNCHANGED <<itemVars, footerVars, appVars>>
    /\ UNCHANGED <<viewportWidth, textContainer, mounted, videoAspectRatio,
                   renderedDimensions, effectRatio, resizeListener, observerConnected,
                   rafQueue>>

-----------------------------------------------------------------------------
(* Events of VideoComponent *)

\* the 'loadedmetadata' listener of the first effect (also called directly by
\* the effect when readyState >= 2)
handleLoadedMetadata(videoWidth, videoHeight) ==
    IF videoWidth > 0 /\ videoHeight > 0
    THEN Rat(videoWidth, videoHeight)
    ELSE videoAspectRatio

LoadedMetadata ==
    /\ mounted
    /\ frameQueue = <<>>
    /\ \E i \in Intrinsics : videoAspectRatio' = handleLoadedMetadata(i[1], i[2])
    /\ pass' = NoPass
    /\ UNCHANGED observerOwes
    /\ UNCHANGED <<itemVars, footerVars, appVars>>
    /\ UNCHANGED <<viewportWidth, textContainer, mounted, dimensions, renderedDimensions,
                   effectRatio, resizeListener, observerConnected, rafQueue, frameQueue,
                   videoStyle, heroHeight, blurBgHeight, heroSectionHeight, homeRenderPending, notify, framePasses>>

handleResize(queue) == requestAnimationFrame(queue, effectRatio)

\* the window is resized; the 'resize' event reaches handleResize if registered
WindowResize ==
    /\ frameQueue = <<>>
    /\ \E vw \in Viewports : viewportWidth' = vw
    /\ IF resizeListener
       THEN /\ Len(rafQueue) < MaxPending
            /\ rafQueue' = handleResize(rafQueue)
       ELSE UNCHANGED rafQueue
    /\ pass' = NoPass
    /\ UNCHANGED observerOwes
    /\ UNCHANGED <<itemVars, footerVars, appVars>>
    /\ UNCHANGED <<textContainer, mounted, videoAspectRatio, dimensions,
                   renderedDimensions, effectRatio, resizeListener, observerConnected,
                   frameQueue, videoStyle, heroHeight, blurBgHeight, heroSectionHeight,
                   homeRenderPending, notify, framePasses>>

\* the ResizeObserver reports the container (on observe() and on size changes)
ResizeObserverNotify ==
    /\ frameQueue = <<>>
    /\ observerConnected
    /\ Len(rafQueue) < MaxPending
    /\ rafQueue' = handleResize(rafQueue)
    /\ observerOwes' = FALSE
    /\ pass' = NoPass
    /\ UNCHANGED <<itemVars, footerVars, appVars>>
    /\ UNCHANGED <<viewportWidth, textContainer, mounted, videoAspectRatio, dimensions,
                   renderedDimensions, effectRatio, resizeListener, observerConnected,
                   frameQueue, videoStyle, heroHeight, blurBgHeight, heroSectionHeight,
                   homeRenderPending, notify, framePasses>>

\* the layout of the text column changes (or the column leaves the document)
Relayout ==
    /\ frameQueue = <<>>
    /\ \E tc \in Containers : textContainer' = tc
    /\ pass' = NoPass
    /\ UNCHANGED observerOwes
    /\ UNCHANGED <<itemVars, footerVars, appVars>>
    /\ UNCHANGED <<viewportWidth, mounted, videoAspectRatio, dimensions,
                   renderedDimensions, effectRatio, resizeListener, observerConnected,
                   rafQueue, frameQueue, videoStyle, heroHeight, blurBgHeight,
                   heroSectionHeight, homeRenderPending, notify, framePasses>>

\* HomePage.handleScroll when setIsScrolled / setIsCompact receive a new value:
\* a state change of HomePage other than heroHeight
handleScroll ==
    /\ mounted
    /\ frameQueue = <<>>
    /\ homeRenderPending' = TRUE
    /\ pass' = NoPass
    /\ UNCHANGED observerOwes
    /\ UNCHANGED <<itemVars, footerVars, appVars>>
    /\ UNCHANGED <<viewportWidth, textContainer, mounted, videoAspectRatio, dimensions,
                   renderedDimensions, effectRatio, resizeListener, observerConnected,
                   rafQueue, frameQueue, videoStyle, heroHeight, blurBgHeight,
                   heroSectionHeight, notify, framePasses>>

-----------------------------------------------------------------------------
(* Rendering *)

\* the style props of the <video> element
styleWidth(d) == IF d.width > 0 THEN Px(Enlarged(<<d.width, 1>>)) ELSE Percent95
styleHeight(d) == IF Positive(d.height) THEN Px(Enlarged(d.height)) ELSE Auto

\* React writes the style properties whose value differs from the last render
commitStyle(style, prev, next) ==
    [width |-> IF styleWidth(next) # styleWidth(prev) THEN styleWidth(next) ELSE style.width,
     height |-> IF styleHeight(next) # styleHeight(prev) THEN styleHeight(next) ELSE style.height]

\* the cleanup as it would be if it left the ResizeObserver connected
cleanupGeometryKeepsObserver ==
    /\ resizeListener' = FALSE
    /\ UNCHANGED <<observerConnected, observerOwes>>

\* cleanup of the geometry effect
cleanupGeometry ==
    /\ resizeListener' = FALSE
    /\ observerConnected' = FALSE
    /\ observerOwes' = FALSE

\* the geometry effect as it would be without its initial animation frame
geometryEffectNoInitialFrame ==
    IF videoAspectRatio = Null
    THEN /\ cleanupGeometry
         /\ UNCHANGED rafQueue
    ELSE /\ observerConnected' = TRUE
         /\ observerOwes' = TRUE
         /\ resizeListener' = TRUE
         /\ UNCHANGED rafQueue

\* body of the geometry effect, run after its cleanup
geometryEffect ==
    IF videoAspectRatio = Null
    THEN /\ cleanupGeometry
         /\ UNCHANGED rafQueue
    ELSE /\ Len(rafQueue) < MaxPending
         /\ observerConnected' = TRUE
         /\ observerOwes' = TRUE
         /\ resizeListener' = TRUE
         /\ rafQueue' = requestAnimationFrame(rafQueue, videoAspectRatio)

\* React re-renders: HomePage (new onHeightChange identity, VideoComponent is
\* rendered again) or VideoComponent alone; then the effects with changed
\* dependencies run
Render ==
    /\ mounted
    /\ frameQueue = <<>>
    /\ \/ homeRenderPending
       \/ videoAspectRatio # effectRatio
       \/ dimensions # renderedDimensions
    /\ videoStyle' = commitStyle(videoStyle, renderedDimensions, dimensions)
    /\ renderedDimensions' = dimensions
    /\ homeRenderPending' = FALSE
    /\ effectRatio' = videoAspectRatio
    /\ IF homeRenderPending \/ videoAspectRatio # effectRatio
       THEN geometryEffect
       ELSE UNCHANGED <<resizeListener, observerConnected, observerOwes, rafQueue>>
    /\ pass' = NoPass
    /\ UNCHANGED <<itemVars, footerVars, appVars>>
    /\ UNCHANGED <<viewportWidth, textContainer, mounted, videoAspectRatio, dimensions,
                   frameQueue, heroHeight, blurBgHeight, heroSectionHeight, notify, framePasses>>

\* HomePage (and VideoComponent in it) is unmounted: the effect cleanups run
Unmount ==
    /\ mounted
    /\ frameQueue = <<>>
    /\ mounted' = FALSE
    /\ cleanupGeometry
    /\ pass' = NoPass
    /\ UNCHANGED <<itemVars, footerVars, appVars>>
    /\ UNCHANGED <<viewportWidth, textContainer, videoAspectRatio, dimensions,
                   renderedDimensions, effectRatio, rafQueue, frameQueue, videoStyle,
                   heroHeight, blurBgHeight, heroSectionHeight, homeRenderPending, notify, framePasses>>

\* the same unmount in an environment whose window.removeEventListener throws
\* (a patched or instrumented DOM): the exception leaves the cleanup before
\* resizeObserver.disconnect(); whether the listener was removed is open
UnmountRemoveListenerThrows ==
    /\ mounted
    /\ frameQueue = <<>>
    /\ mounted' = FALSE
    /\ \E removed \in BOOLEAN : resizeListener' = (resizeListener /\ ~removed)
    /\ UNCHANGED <<observerConnected, observerOwes>>
    /\ pass' = NoPass
    /\ UNCHANGED <<itemVars, footerVars, appVars>>
    /\ UNCHANGED <<viewportWidth, textContainer, videoAspectRatio, dimensions,
                   renderedDimensions, effectRatio, rafQueue, frameQueue, videoStyle,
                   heroHeight, blurBgHeight, heroSectionHeight, homeRenderPending, notify, framePasses>>

-----------------------------------------------------------------------------
(* The <video> element of an ExpertiseItem *)

\* play() as it would be if a rejected request stopped the element and
\* cleared its loop flag
playRejectionResets(v, allowed) ==
    IF allowed
    THEN [v EXCEPT !.paused = FALSE, !.position = IF @ = "end" THEN "start" ELSE @]
    ELSE [v EXCEPT !.paused = TRUE, !.loop = FALSE]

\* HTMLMediaElement.play(); `allowed` is the browser's decision. Playback that
\* had ended starts again from the beginning.
play(v, allowed) ==
    IF allowed
    THEN [v EXCEPT !.paused = FALSE, !.position = IF @ = "end" THEN "start" ELSE @]
    ELSE v

\* HTMLMediaElement.pause()
pause(v) == [v EXCEPT !.paused = TRUE]

NoHandler == [event |-> "none", play |-> FALSE, allowed |-> FALSE]
Handled(event, played, allowed) ==
    [event |-> event, play |-> played, allowed |-> played /\ allowed]

-----------------------------------------------------------------------------
(* ExpertiseItem handlers; each reads the state values of its closure *)

\* the observer callback as it would be without the readyState test
observerCallbackUnguarded(isIntersecting, allowed) ==
    IF isIntersecting
    THEN /\ isInView' = TRUE
         /\ IF ~rendered.hasPlayedOnce /\ ~rendered.isHovered
            THEN /\ video' = play([video EXCEPT !.loop = FALSE], allowed)
                 /\ last' = Handled("intersection", TRUE, allowed)
            ELSE /\ UNCHANGED video
                 /\ last' = Handled("intersection", FALSE, FALSE)
    ELSE /\ UNCHANGED <<isInView, video>>
         /\ last' = Handled("intersection", FALSE, FALSE)

\* the IntersectionObserver callback for one entry
observerCallback(isIntersecting, allowed) ==
    IF isIntersecting
    THEN /\ isInView' = TRUE
         /\ IF ~rendered.hasPlayedOnce /\ ~rendered.isHovered
            THEN /\ video' = IF video.readyState >= 2
                             THEN play([video EXCEPT !.loop = FALSE], allowed)
                             ELSE [video EXCEPT !.loop = FALSE]
                 /\ last' = Handled("intersection", video.readyState >= 2, allowed)
            ELSE /\ UNCHANGED video
                 /\ last' = Handled("intersection", FALSE, FALSE)
    ELSE /\ UNCHANGED <<isInView, video>>
         /\ last' = Handled("intersection", FALSE, FALSE)

\* onMouseEnter as it would be if it honoured the one-shot latch
mouseEnterVideoOnce(v, allowed) ==
    IF rendered.hasPlayedOnce THEN v ELSE play([v EXCEPT !.loop = TRUE], allowed)

\* the element after onMouseEnter's writes
mouseEnterVideo(v, allowed) == play([v EXCEPT !.loop = TRUE], allowed)

\* onMouseLeave as it would be without the rewind
mouseLeaveVideoNoRewind(v) == pause([v EXCEPT !.loop = FALSE])

\* the element after onMouseLeave's writes
mouseLeaveVideo(v) == [pause([v EXCEPT !.loop = FALSE]) EXCEPT !.position = "start"]

\* the condition onLoadedMetadata and onCanPlay test before playing
mayAutoplay(v) ==
    rendered.isInView /\ ~rendered.hasPlayedOnce /\ ~rendered.isHovered /\ v.paused

\* the first observation after observe()
IntersectionInitial ==
    /\ itemMounted
    /\ observerInitial
    /\ observerInitial' = FALSE
    /\ \E allowed \in BOOLEAN : observerCallback(intersecting, allowed)
    /\ UNCHANGED <<itemMounted, isHovered, hasPlayedOnce, rendered, intersecting,
                   endedEvent, timers>>
    /\ hoverHistory' = IF hoverHistory = "resting" /\ intersecting /\ ~isInView
                       THEN "left" ELSE hoverHistory
    /\ UNCHANGED <<videoVars, footerVars, appVars>>

\* the container crosses the threshold; a connected observer that has made
\* its first observation reports it
IntersectionChange ==
    /\ itemMounted
    /\ intersecting' = ~intersecting
    /\ IF observerInitial
       THEN /\ UNCHANGED <<isInView, video>>
            /\ last' = NoHandler
       ELSE \E allowed \in BOOLEAN : observerCallback(~intersecting, allowed)
    /\ UNCHANGED <<itemMounted, isHovered, hasPlayedOnce, rendered, observerInitial,
                   endedEvent, timers>>
    /\ hoverHistory' = IF hoverHistory = "resting" /\ ~intersecting THEN "left"
                       ELSE hoverHistory
    /\ UNCHANGED <<videoVars, footerVars, appVars>>

onMouseEnter ==
    /\ itemMounted
    /\ ~isHovered
    /\ isHovered' = TRUE
    /\ \E allowed \in BOOLEAN :
        /\ video' = mouseEnterVideo(video, allowed)
        /\ last' = Handled("mouseenter", TRUE, allowed)
    /\ UNCHANGED <<itemMounted, hasPlayedOnce, isInView, rendered, observerInitial,
                   intersecting, endedEvent, timers>>
    /\ hoverHistory' = IF hoverHistory = "none" THEN "none" ELSE "left"
    /\ UNCHANGED <<videoVars, footerVars, appVars>>

onMouseLeave ==
    /\ itemMounted
    /\ isHovered
    /\ isHovered' = FALSE
    /\ video' = mouseLeaveVideo(video)
    /\ last' = Handled("mouseleave", FALSE, FALSE)
    /\ UNCHANGED <<itemMounted, hasPlayedOnce, isInView, rendered, observerInitial,
                   intersecting, endedEvent, timers>>
    /\ hoverHistory' = "resting"
    /\ UNCHANGED <<videoVars, footerVars, appVars>>

\* 'loadedmetadata': the resource's metadata is loaded (again, if the element
\* loads its resource anew: that resets the position and pauses)
onLoadedMetadata ==
    /\ itemMounted
    /\ LET loaded == IF video.readyState = 0
                     THEN [video EXCEPT !.readyState = 1]
                     ELSE [video EXCEPT !.readyState = 1, !.position = "start",
                                        !.paused = TRUE]
       IN  /\ video' = [loaded EXCEPT !.loop = FALSE]
           /\ IF mayAutoplay(loaded)
              THEN /\ timers < MaxTimers
                   /\ timers' = timers + 1
              ELSE UNCHANGED timers
    /\ endedEvent' = IF video.readyState = 0 THEN endedEvent ELSE FALSE
    /\ last' = Handled("loadedmetadata", FALSE, FALSE)
    /\ UNCHANGED <<itemMounted, isHovered, hasPlayedOnce, isInView, rendered,
                   observerInitial, intersecting>>
    /\ UNCHANGED hoverHistory
    /\ UNCHANGED <<videoVars, footerVars, appVars>>

\* the callback of onLoadedMetadata's setTimeout; its closure holds the values
\* that passed the test when the timer was set, so only the ref is open
TimerFires ==
    /\ timers > 0
    /\ timers' = timers - 1
    /\ IF itemMounted
       THEN \E allowed \in BOOLEAN :
                /\ video' = play(video, allowed)
                /\ last' = Handled("timer", TRUE, allowed)
       ELSE /\ UNCHANGED video
            /\ last' = Handled("timer", FALSE, FALSE)
    /\ UNCHANGED <<itemMounted, isHovered, hasPlayedOnce, isInView, rendered,
                   observerInitial, intersecting, endedEvent>>
    /\ UNCHANGED hoverHistory
    /\ UNCHANGED <<videoVars, footerVars, appVars>>

\* 'loadeddata': the first frame is available (no handler)
LoadedData ==
    /\ itemMounted
    /\ video.readyState = 1
    /\ video' = [video EXCEPT !.readyState = 2]
    /\ last' = NoHandler
    /\ UNCHANGED <<itemMounted, isHovered, hasPlayedOnce, isInView, rendered,
                   observerInitial, intersecting, endedEvent, timers>>
    /\ UNCHANGED hoverHistory
    /\ UNCHANGED <<videoVars, footerVars, appVars>>

\* 'canplay' (fired again after a seek or a stall)
onCanPlay ==
    /\ itemMounted
    /\ video.readyState >= 2
    /\ LET ready == [video EXCEPT !.readyState = 3, !.loop = FALSE]
       IN  IF mayAutoplay(ready)
           THEN \E allowed \in BOOLEAN :
                    /\ video' = play(ready, allowed)
                    /\ last' = Handled("canplay", TRUE, allowed)
           ELSE /\ video' = ready
                /\ last' = Handled("canplay", FALSE, FALSE)
    /\ UNCHANGED <<itemMounted, isHovered, hasPlayedOnce, isInView, rendered,
                   observerInitial, intersecting, endedEvent, timers>>
    /\ UNCHANGED hoverHistory
    /\ UNCHANGED <<videoVars, footerVars, appVars>>

\* playback moves on from the start of the clip
PlaybackAdvances ==
    /\ itemMounted
    /\ ~video.paused /\ video.readyState = 3 /\ video.position = "start"
    /\ video' = [video EXCEPT !.position = "mid"]
    /\ last' = NoHandler
    /\ UNCHANGED <<itemMounted, isHovered, hasPlayedOnce, isInView, rendered,
                   observerInitial, intersecting, endedEvent, timers>>
    /\ UNCHANGED hoverHistory
    /\ UNCHANGED <<videoVars, footerVars, appVars>>

\* playback reaches the end of the clip: a looping element starts over, any
\* other one stops there and queues 'ended'
PlaybackReachesEnd ==
    /\ itemMounted
    /\ ~video.paused /\ video.readyState = 3 /\ video.position # "end"
    /\ IF video.loop
       THEN /\ video' = [video EXCEPT !.position = "start"]
            /\ UNCHANGED endedEvent
       ELSE /\ video' = [video EXCEPT !.position = "end"]
            /\ endedEvent' = TRUE
    /\ last' = NoHandler
    /\ UNCHANGED <<itemMounted, isHovered, hasPlayedOnce, isInView, rendered,
                   observerInitial, intersecting, timers>>
    /\ UNCHANGED hoverHistory
    /\ UNCHANGED <<videoVars, footerVars, appVars>>

\* onEnded as it would be if it never set the latch
endedLatchNeverSet(hovered, played) == played

\* onEnded as it would be if it wrote the negated hover flag into the latch
endedLatchFollowsHover(hovered, played) == ~hovered

\* hasPlayedOnce after onEnded, whose closure reads isHovered as `hovered`
endedLatch(hovered, played) == IF ~hovered THEN TRUE ELSE played

\* the queued 'ended' event: the browser pauses an element whose playback has
\* ended, then onEnded runs
onEnded ==
    /\ itemMounted
    /\ endedEvent
    /\ endedEvent' = FALSE
    /\ LET stopped == IF video.position = "end" /\ ~video.loop
                      THEN pause(video) ELSE video
       IN  video' = IF ~rendered.isHovered THEN pause(stopped) ELSE stopped
    /\ hasPlayedOnce' = endedLatch(rendered.isHovered, hasPlayedOnce)
    /\ last' = Handled("ended", FALSE, FALSE)
    /\ UNCHANGED <<itemMounted, isHovered, isInView, rendered, observerInitial,
                   intersecting, timers>>
    /\ UNCHANGED hoverHistory
    /\ UNCHANGED <<videoVars, footerVars, appVars>>

current == [isHovered |-> isHovered, hasPlayedOnce |-> hasPlayedOnce, isInView |-> isInView]

\* React re-renders the item; the observer effect runs again (disconnect, new
\* observer, observe) when hasPlayedOnce or isHovered changed
ItemRender ==
    /\ itemMounted
    /\ rendered # current
    /\ rendered' = current
    /\ observerInitial' =
         IF rendered.hasPlayedOnce # hasPlayedOnce \/ rendered.isHovered # isHovered
         THEN TRUE ELSE observerInitial
    /\ last' = NoHandler
    /\ UNCHANGED <<itemMounted, isHovered, hasPlayedOnce, isInView, intersecting, video,
                   endedEvent, timers>>
    /\ UNCHANGED hoverHistory
    /\ UNCHANGED <<videoVars, footerVars, appVars>>

\* the item is unmounted: the observer is disconnected, the ref becomes null
ItemUnmount ==
    /\ itemMounted
    /\ itemMounted' = FALSE
    /\ observerInitial' = FALSE
    /\ last' = NoHandler
    /\ UNCHANGED <<isHovered, hasPlayedOnce, isInView, rendered, intersecting, video,
                   endedEvent, timers>>
    /\ UNCHANGED hoverHistory
    /\ UNCHANGED <<videoVars, footerVars, appVars>>

-----------------------------------------------------------------------------
(* HomePage footer video *)

NoFooterHandler == [event |-> "none", play |-> FALSE, allowed |-> FALSE, scheduled |-> 0]
FooterHandled(event, played, allowed, scheduled) ==
    [event |-> event, play |-> played, allowed |-> played /\ allowed,
     scheduled |-> scheduled]

\* tryPlay, and the same steps in onCanPlay and onLoadedData
tryPlay(v, allowed) ==
    LET looped == [v EXCEPT !.loop = TRUE]
    IN  IF looped.paused THEN play(looped, allowed) ELSE looped

\* the footer observer's callback for one entry
footerObserverCallback(isIntersecting, allowed) ==
    IF isIntersecting
    THEN /\ tryPlayTimers + 2 <= MaxTimers
         /\ isFooterInView' = TRUE
         /\ footerVideo' = tryPlay(footerVideo, allowed)
         /\ tryPlayTimers' = tryPlayTimers + 2
         /\ footerLast' = FooterHandled("intersection", footerVideo.paused, allowed, 2)
    ELSE /\ isFooterInView' = FALSE
         /\ footerVideo' = pause(footerVideo)
         /\ UNCHANGED tryPlayTimers
         /\ footerLast' = FooterHandled("intersection", FALSE, FALSE, 0)

\* the first observation after observe()
FooterIntersectionInitial ==
    /\ footerMounted
    /\ footerObserverInitial
    /\ footerObserverInitial' = FALSE
    /\ \E allowed \in BOOLEAN : footerObserverCallback(footerIntersecting, allowed)
    /\ UNCHANGED <<footerMounted, footerIntersecting, metadataTimers>>
    /\ UNCHANGED <<videoVars, itemVars, appVars>>

\* the footer section crosses the margin; the observer reports it once it has
\* made its first observation
FooterIntersectionChange ==
    /\ footerMounted
    /\ footerIntersecting' = ~footerIntersecting
    /\ IF footerObserverInitial
       THEN /\ UNCHANGED <<isFooterInView, footerVideo, tryPlayTimers>>
            /\ footerLast' = NoFooterHandler
       ELSE \E allowed \in BOOLEAN : footerObserverCallback(~footerIntersecting, allowed)
    /\ UNCHANGED <<footerMounted, footerObserverInitial, metadataTimers>>
    /\ UNCHANGED <<videoVars, itemVars, appVars>>

\* a setTimeout(tryPlay, ...) callback; tryPlay reads footerVideoRef.current
TryPlayTimerFires ==
    /\ tryPlayTimers > 0
    /\ tryPlayTimers' = tryPlayTimers - 1
    /\ IF footerMounted
       THEN \E allowed \in BOOLEAN :
                /\ footerVideo' = tryPlay(footerVideo, allowed)
                /\ footerLast' = FooterHandled("tryPlay", footerVideo.paused, allowed, 0)
       ELSE /\ UNCHANGED footerVideo
            /\ footerLast' = FooterHandled("tryPlay", FALSE, FALSE, 0)
    /\ UNCHANGED <<footerMounted, footerIntersecting, footerObserverInitial,
                   isFooterInView, metadataTimers>>
    /\ UNCHANGED <<videoVars, itemVars, appVars>>

\* the footer video's 'loadedmetadata'
footerOnLoadedMetadata ==
    /\ footerMounted
    /\ footerVideo.readyState = 0
    /\ metadataTimers < MaxTimers
    /\ footerVideo' = [footerVideo EXCEPT !.readyState = 1, !.loop = TRUE]
    /\ metadataTimers' = metadataTimers + 1
    /\ footerLast' = FooterHandled("loadedmetadata", FALSE, FALSE, 1)
    /\ UNCHANGED <<footerMounted, footerIntersecting, footerObserverInitial,
                   isFooterInView, tryPlayTimers>>
    /\ UNCHANGED <<videoVars, itemVars, appVars>>

\* the callback of onLoadedMetadata's setTimeout; it holds the element itself
MetadataTimerFires ==
    /\ metadataTimers > 0
    /\ metadataTimers' = metadataTimers - 1
    /\ \E allowed \in BOOLEAN :
        /\ footerVideo' = IF footerVideo.paused THEN play(footerVideo, allowed)
                          ELSE footerVideo
        /\ footerLast' = FooterHandled("metadataTimer", footerVideo.paused, allowed, 0)
    /\ UNCHANGED <<footerMounted, footerIntersecting, footerObserverInitial,
                   isFooterInView, tryPlayTimers>>
    /\ UNCHANGED <<videoVars, itemVars, appVars>>

\* the footer video's 'loadeddata'
footerOnLoadedData ==
    /\ footerMounted
    /\ footerVideo.readyState = 1
    /\ \E allowed \in BOOLEAN :
        /\ footerVideo' = tryPlay([footerVideo EXCEPT !.readyState = 2], allowed)
        /\ footerLast' = FooterHandled("loadeddata", footerVideo.paused, allowed, 0)
    /\ UNCHANGED <<footerMounted, footerIntersecting, footerObserverInitial,
                   isFooterInView, tryPlayTimers, metadataTimers>>
    /\ UNCHANGED <<videoVars, itemVars, appVars>>

\* the footer video's 'canplay'
footerOnCanPlay ==
    /\ footerMounted
    /\ footerVideo.readyState = 2
    /\ \E allowed \in BOOLEAN :
        /\ footerVideo' = tryPlay([footerVideo EXCEPT !.readyState = 3], allowed)
        /\ footerLast' = FooterHandled("canplay", footerVideo.paused, allowed, 0)
    /\ UNCHANGED <<footerMounted, footerIntersecting, footerObserverInitial,
                   isFooterInView, tryPlayTimers, metadataTimers>>
    /\ UNCHANGED <<videoVars, itemVars, appVars>>

\* (onPlaying only sets loop = true again, which no handler of the footer
\* video ever clears.)

\* HomePage is unmounted: the observer is disconnected, the ref becomes null
FooterUnmount ==
    /\ footerMounted
    /\ footerMounted' = FALSE
    /\ footerObserverInitial' = FALSE
    /\ footerLast' = NoFooterHandler
    /\ UNCHANGED <<footerIntersecting, isFooterInView, footerVideo, tryPlayTimers,
                   metadataTimers>>
    /\ UNCHANGED <<videoVars, itemVars, appVars>>

-----------------------------------------------------------------------------
(* App and ProjectDetail *)

ProjectIds == {"railway-redesign", "hourtaste", "nook", "cat-peaceful-day"}
ScrollPositions == {0, 120, 400}

\* ProjectDetail is not mounted
NoDetail == [mounted |-> FALSE, scrollY |-> 0, isScrolled |-> FALSE,
             isCompact |-> FALSE, isWorkHovered |-> FALSE]

\* handleScroll of ProjectDetail
detailHandleScroll(d, currentScrollY) ==
    [d EXCEPT !.scrollY = currentScrollY,
              !.isScrolled = currentScrollY > 50,
              !.isCompact = currentScrollY > 200]

\* ProjectDetail after mount: initial state, then the effect's handleScroll()
mountDetail(currentScrollY) ==
    detailHandleScroll([NoDetail EXCEPT !.mounted = TRUE], currentScrollY)

\* what App renders
view ==
    IF currentPage = "about" THEN "About"
    ELSE IF currentPage = "project" /\ selectedProject # {} THEN "ProjectDetail"
    ELSE "HomePage"

\* window.scrollTo(0, 0)
scrollToTop ==
    /\ windowScrollY' = 0
    /\ scrollEvent' = (scrollEvent \/ windowScrollY # 0)

\* App's onNavigateToProject (the same for HomePage and ProjectDetail)
onNavigateToProject(projectId) ==
    /\ selectedProject' = {projectId}
    /\ currentPage' = "project"
    /\ scrollToTop

\* a project link of HomePage is clicked
HomeNavigateToProject ==
    /\ view = "HomePage"
    /\ \E projectId \in ProjectIds : onNavigateToProject(projectId)
    /\ detail' = mountDetail(0)
    /\ UNCHANGED <<videoVars, itemVars, footerVars>>

\* the About link of HomePage is clicked
HomeNavigateToAbout ==
    /\ view = "HomePage"
    /\ currentPage' = "about"
    /\ UNCHANGED <<selectedProject, windowScrollY, scrollEvent, detail>>
    /\ UNCHANGED <<videoVars, itemVars, footerVars>>

\* About's onNavigateHome
onNavigateHome ==
    /\ view = "About"
    /\ currentPage' = "home"
    /\ UNCHANGED <<selectedProject, windowScrollY, scrollEvent, detail>>
    /\ UNCHANGED <<videoVars, itemVars, footerVars>>

\* ProjectDetail's back button
onBack ==
    /\ view = "ProjectDetail"
    /\ currentPage' = "home"
    /\ selectedProject' = {}
    /\ detail' = NoDetail
    /\ UNCHANGED <<windowScrollY, scrollEvent>>
    /\ UNCHANGED <<videoVars, itemVars, footerVars>>

\* ProjectDetail's About link
DetailNavigateToAbout ==
    /\ view = "ProjectDetail"
    /\ currentPage' = "about"
    /\ detail' = NoDetail
    /\ UNCHANGED <<selectedProject, windowScrollY, scrollEvent>>
    /\ UNCHANGED <<videoVars, itemVars, footerVars>>

\* the pointer enters or leaves ProjectDetail's WORK menu
WorkHover ==
    /\ view = "ProjectDetail"
    /\ detail' = [detail EXCEPT !.isWorkHovered = ~@]
    /\ UNCHANGED <<currentPage, selectedProject, windowScrollY, scrollEvent>>
    /\ UNCHANGED <<videoVars, itemVars, footerVars>>

\* a project of ProjectDetail's WORK dropdown is clicked; ProjectDetail stays
\* mounted with a new projectId
DetailNavigateToProject ==
    /\ view = "ProjectDetail"
    /\ detail.isWorkHovered
    /\ \E projectId \in ProjectIds : onNavigateToProject(projectId)
    /\ detail' = [detail EXCEPT !.isWorkHovered = FALSE]
    /\ UNCHANGED <<videoVars, itemVars, footerVars>>

\* the user scrolls the window
UserScroll ==
    /\ \E y \in ScrollPositions \ {windowScrollY} : windowScrollY' = y
    /\ scrollEvent' = TRUE
    /\ UNCHANGED <<currentPage, selectedProject, detail>>
    /\ UNCHANGED <<videoVars, itemVars, footerVars>>

\* the queued 'scroll' event is dispatched; ProjectDetail listens while mounted
ScrollEvent ==
    /\ scrollEvent
    /\ scrollEvent' = FALSE
    /\ detail' = IF detail.mounted THEN detailHandleScroll(detail, windowScrollY)
                 ELSE detail
    /\ UNCHANGED <<currentPage, selectedProject, windowScrollY>>
    /\ UNCHANGED <<videoVars, itemVars, footerVars>>

-----------------------------------------------------------------------------
(* Specifications *)

InitItem ==
    /\ itemMounted = TRUE
    /\ isHovered = FALSE
    /\ hasPlayedOnce = FALSE
    /\ isInView = FALSE
    /\ rendered = [isHovered |-> FALSE, hasPlayedOnce |-> FALSE, isInView |-> FALSE]
    /\ observerInitial = TRUE
    /\ intersecting \in BOOLEAN
    /\ video = [loop |-> FALSE, paused |-> TRUE, position |-> "start", readyState |-> 0]
    /\ endedEvent = FALSE
    /\ timers = 0
    /\ last = NoHandler
    /\ hoverHistory = "none"

\* the other component, left alone
ItemIdle ==
    /\ InitItem
    /\ intersecting = FALSE

InitVideoComponent ==
    /\ viewportWidth \in Viewports
    /\ textContainer \in Containers
    /\ mounted = TRUE
    /\ videoAspectRatio = Null
    /\ dimensions = [width |-> 0, height |-> Zero]
    /\ renderedDimensions = [width |-> 0, height |-> Zero]
    /\ effectRatio = Null
    /\ resizeListener = FALSE
    /\ observerConnected = FALSE
    /\ observerOwes = FALSE
    /\ rafQueue = <<>>
    /\ frameQueue = <<>>
    /\ videoStyle = [width |-> Percent95, height |-> Auto]
    /\ heroHeight = Null
    /\ blurBgHeight = Auto
    /\ heroSectionHeight = Auto
    /\ homeRenderPending = FALSE
    /\ pass = NoPass
    /\ notify = [called |-> FALSE, width |-> 0, height |-> Zero, count |-> 0]
    /\ framePasses = [passes |-> 0, calls |-> 0]

VideoIdle ==
    /\ InitVideoComponent
    /\ viewportWidth = 1440
    /\ textContainer = NoContainer

InitFooterVideo ==
    /\ footerMounted = TRUE
    /\ footerIntersecting \in BOOLEAN
    /\ footerObserverInitial = TRUE
    /\ isFooterInView = FALSE
    /\ footerVideo = [loop |-> TRUE, paused |-> TRUE, position |-> "start", readyState |-> 0]
    /\ tryPlayTimers = 0
    /\ metadataTimers = 0
    /\ footerLast = NoFooterHandler

FooterIdle ==
    /\ InitFooterVideo
    /\ footerIntersecting = FALSE

InitAppState ==
    /\ currentPage = "home"
    /\ selectedProject = {}
    /\ windowScrollY = 0
    /\ scrollEvent = FALSE
    /\ detail = NoDetail

InitVideo == InitVideoComponent /\ ItemIdle /\ FooterIdle /\ InitAppState

InitExpertise == InitItem /\ VideoIdle /\ FooterIdle /\ InitAppState

InitFooter == InitFooterVideo /\ VideoIdle /\ ItemIdle /\ InitAppState

InitApp == InitAppState /\ VideoIdle /\ ItemIdle /\ FooterIdle

NextVideo ==
    \/ LoadedMetadata
    \/ WindowResize
    \/ ResizeObserverNotify
    \/ Relayout
    \/ handleScroll
    \/ Render
    \/ BeginFrame
    \/ RunFrameCallback
    \/ Unmount

SpecVideo == InitVideo /\ [][NextVideo]_vars

\* the sizer with no resize signal at all; React commits a due render and the
\* browser runs its animation frames
NextNoResize ==
    \/ LoadedMetadata
    \/ handleScroll
    \/ Render
    \/ BeginFrame
    \/ RunFrameCallback
    \/ Unmount

SpecNoResize ==
    /\ InitVideo
    /\ [][NextNoResize]_vars
    /\ WF_vars(Render)
    /\ WF_vars(BeginFrame)
    /\ WF_vars(RunFrameCallback)

\* the first 'loadedmetadata' of the video
FirstMetadata == videoAspectRatio = Null /\ LoadedMetadata

\* the ResizeObserver delivers the notification it owes
ObserverDelivers == observerOwes /\ ResizeObserverNotify

\* the sizer and HomePage left to themselves in a fixed layout: after the
\* video's metadata no external event occurs
NextFeedback ==
    \/ FirstMetadata
    \/ ObserverDelivers
    \/ Render
    \/ BeginFrame
    \/ RunFrameCallback

SpecFeedback ==
    /\ InitVideo
    /\ [][NextFeedback]_vars
    /\ WF_vars(ObserverDelivers)
    /\ WF_vars(Render)
    /\ WF_vars(BeginFrame)
    /\ WF_vars(RunFrameCallback)

\* the sizer in a fixed layout, with an unmount whose cleanup may throw
NextTeardown ==
    \/ LoadedMetadata
    \/ WindowResize
    \/ ResizeObserverNotify
    \/ Render
    \/ BeginFrame
    \/ RunFrameCallback
    \/ Unmount
    \/ UnmountRemoveListenerThrows

SpecTeardown == InitVideo /\ [][NextTeardown]_vars

NextExpertise ==
    \/ IntersectionInitial
    \/ IntersectionChange
    \/ onMouseEnter
    \/ onMouseLeave
    \/ onLoadedMetadata
    \/ TimerFires
    \/ LoadedData
    \/ onCanPlay
    \/ PlaybackAdvances
    \/ PlaybackReachesEnd
    \/ onEnded
    \/ ItemRender
    \/ ItemUnmount

SpecExpertise == InitExpertise /\ [][NextExpertise]_vars

NextFooter ==
    \/ FooterIntersectionInitial
    \/ FooterIntersectionChange
    \/ TryPlayTimerFires
    \/ footerOnLoadedMetadata
    \/ MetadataTimerFires
    \/ footerOnLoadedData
    \/ footerOnCanPlay
    \/ FooterUnmount

SpecFooter == InitFooter /\ [][NextFooter]_vars

NextApp ==
    \/ HomeNavigateToProject
    \/ HomeNavigateToAbout
    \/ onNavigateHome
    \/ onBack
    \/ DetailNavigateToAbout
    \/ WorkHover
    \/ DetailNavigateToProject
    \/ UserScroll
    \/ ScrollEvent

SpecApp == InitApp /\ [][NextApp]_vars

-----------------------------------------------------------------------------
(* Properties of VideoComponent *)

\* C1 (as claimed): passes that resolve to the same width with the same aspect
\* ratio invoke onHeightChange once, not once per pass.
IdempotentPublication == notify.count <= 1

\* C2 (as claimed): within one animation frame at most one updateDimensions
\* pass runs and onHeightChange is invoked at most once.
FrameCoalesced == framePasses.passes <= 1 /\ framePasses.calls <= 1

\* C3 (as claimed): once the component is unmounted no pass writes the video's
\* size or invokes the height callback.
TeardownIsFinal == ~mounted => ~pass.published

\* C4 (as claimed): once videoAspectRatio is set, no later loadedmetadata event
\* changes it while the component is mounted.
AspectRatioLock ==
    [][(mounted /\ videoAspectRatio # Null) => videoAspectRatio' = videoAspectRatio]_vars

\* C5 (as claimed): a published geometry has height = width / videoAspectRatio
\* for the current aspect ratio, and onHeightChange receives that height.
PublishedHeightMatchesRatio ==
    pass.published =>
        /\ videoAspectRatio # Null
        /\ pass.height = Quotient(pass.width, videoAspectRatio)
        /\ notify.height = pass.height

\* C6: a pass whose width or height is not positive writes nothing and notifies
\* nobody, and dimensions is {0,0} or positive in both components.
NonPositivePassIsInert ==
    /\ [](\/ dimensions = [width |-> 0, height |-> Zero]
          \/ (dimensions.width > 0 /\ Positive(dimensions.height)))
    /\ [][(pass'.ran /\ ~(pass'.width > 0 /\ Positive(pass'.height))) =>
            /\ ~pass'.published
            /\ UNCHANGED <<dimensions, videoStyle, notify, heroHeight, blurBgHeight,
                           heroSectionHeight, homeRenderPending>>]_vars

\* C6 witness: a pass resolved width 0 and an earlier publication is kept.
NonPositivePassSeen ==
    /\ pass.ran /\ pass.width = 0 /\ ~pass.published
    /\ dimensions.width > 0 /\ notify.called

\* the width the claim C7 states; `nominal` says whether the max-width counts as
\* the nominal one
ClaimedWidth(nominal) ==
    IF textContainer.found
    THEN IF textContainer.width < 1180 /\ nominal
         THEN Min(viewportWidth, 1180)
         ELSE textContainer.width
    ELSE Min(viewportWidth, 1180)

NarrowContent ==
    /\ pass.ran
    /\ textContainer.found /\ textContainer.width = 820
    /\ pass.ratio = <<16, 9>>

Published820 == pass.published /\ pass.width = 820 /\ pass.height = <<1845, 4>>

\* C8 (as claimed): measured width 820 with aspect ratio 16/9 publishes
\* {820, 461.25}, whatever the viewport and the max-width.
ScenarioNarrowContent == NarrowContent => Published820

\* C8 (amended): measured width 820 with aspect ratio 16/9 publishes
\* {820, 461.25} when the max-width does not contain "1180" or the viewport is
\* 820 wide.
ScenarioNarrowContentGuarded ==
    (NarrowContent /\ (~includes(textContainer.maxWidth, Str1180) \/ viewportWidth = 820))
        => Published820

\* C8 witness: the scenario with a max-width of "none" and a viewport of 1440.
NarrowContentSeen ==
    /\ NarrowContent /\ Published820
    /\ textContainer.maxWidth = StrNone /\ viewportWidth = 1440

\* C9 (as claimed): the resolved and published width never exceeds 1180.
WidthClamped == (pass.ran => pass.width <= 1180) /\ dimensions.width <= 1180

-----------------------------------------------------------------------------
(* Properties of ExpertiseItem *)

\* C10: whatever the state before, the pointer-enter handler leaves isHovered
\* true and the loop flag true and has requested playback (which starts unless
\* the browser refuses it).
HoverStartsLoop ==
    last.event = "mouseenter" =>
        /\ isHovered
        /\ video.loop
        /\ last.play
        /\ (last.allowed => ~video.paused)

\* C10 witness: pointer-enter on an item that had played once and is out of
\* view started looped playback.
HoverAfterPlayedOnceSeen ==
    /\ last.event = "mouseenter" /\ last.allowed
    /\ hasPlayedOnce /\ ~intersecting
    /\ video.loop /\ ~video.paused

\* C11: the pointer-leave handler leaves isHovered false, the video paused and
\* the play position at zero, whatever the state before.
LeaveStopsAndRewinds ==
    last.event = "mouseleave" =>
        /\ ~isHovered
        /\ video.paused
        /\ video.position = "start"

\* C11 witness: pointer-leave rewound a clip whose 'ended' event is still
\* queued (it had reached its end).
LeaveAfterEndSeen ==
    /\ last.event = "mouseleave" /\ endedEvent
    /\ ~isHovered /\ video.paused /\ video.position = "start"

\* C12: hasPlayedOnce never goes back from true to false (so it rises at most
\* once).
LatchMonotonic == [][hasPlayedOnce => hasPlayedOnce']_vars

\* C12 witness: 'ended' was handled by a hovered item whose latch was set, and
\* the latch is still set.
LatchKeptWhileHoveredSeen ==
    /\ last.event = "ended" /\ rendered.isHovered /\ isHovered
    /\ hasPlayedOnce /\ itemMounted

\* the events that start playback because of visibility, not of the pointer
AutoplayEvents == {"intersection", "loadedmetadata", "canplay", "timer"}

\* C13: once hasPlayedOnce is true (set and rendered), no intersection,
\* loadedmetadata, canplay or timer step starts playback while the item is not
\* hovered.
NoAutoplayAfterLatch ==
    (hasPlayedOnce /\ rendered.hasPlayedOnce /\ ~isHovered /\ last.event \in AutoplayEvents)
        => ~last.allowed

\* the conditions of visibility-driven autoplay, as the observer callback that
\* reports `entering` reads them
autoplayConditions(entering) ==
    entering /\ ~rendered.hasPlayedOnce /\ ~rendered.isHovered

\* C14 as stated: an intersection event requests playback with loop forced to
\* false exactly when the container is reported intersecting and hasPlayedOnce
\* and isHovered are false; otherwise it requests nothing and keeps loop.
AutoplayOnEntry ==
    [][last'.event = "intersection" =>
          IF autoplayConditions(intersecting')
          THEN last'.play /\ ~video'.loop
          ELSE ~last'.play /\ video'.loop = video.loop]_vars

\* C14: as above, but playback is requested only if the video's readyState is
\* at least 2; below that the event forces loop to false and requests nothing.
AutoplayOnEntryWhenReady ==
    [][last'.event = "intersection" =>
          IF autoplayConditions(intersecting')
          THEN (last'.play <=> video.readyState >= 2) /\ ~video'.loop
          ELSE ~last'.play /\ video' = video]_vars

\* C14 witness: the container was reported in view with both flags false and
\* the video not ready: loop is off, nothing was requested.
EntryBeforeReadySeen ==
    /\ last.event = "intersection" /\ intersecting /\ isInView
    /\ ~rendered.hasPlayedOnce /\ ~rendered.isHovered
    /\ video.readyState < 2 /\ ~video.loop /\ ~last.play /\ video.paused

\* C15: when 'ended' is handled for an item that plays unlooped and is not
\* hovered (in its state and in the render its handlers belong to),
\* hasPlayedOnce becomes true and the video is paused.
EndedWhileNotHovered ==
    [][(onEnded /\ ~isHovered /\ ~rendered.isHovered /\ ~video.paused /\ ~video.loop)
          => hasPlayedOnce' /\ video'.paused]_vars

\* C15 witness: 'ended' was handled after a clip started by the observer ran
\* to its end unhovered; the latch is set though not yet rendered.
EndedAfterAutoplaySeen ==
    /\ last.event = "ended" /\ ~isHovered /\ ~rendered.isHovered
    /\ hasPlayedOnce /\ ~rendered.hasPlayedOnce
    /\ video.paused /\ video.position = "end" /\ ~video.loop

\* C16: when 'ended' is handled for a hovered item (hovered in its state and
\* in the render its handlers belong to) whose video was playing,
\* hasPlayedOnce keeps its value and the video goes on playing looped.
EndedWhileHovered ==
    [][(onEnded /\ isHovered /\ rendered.isHovered /\ ~video.paused)
          => /\ hasPlayedOnce' = hasPlayedOnce
             /\ ~video'.paused /\ video'.loop]_vars

\* C22: also when a detach step of the cleanup throws, the ResizeObserver of
\* an unmounted VideoComponent is disconnected.
BestEffortTeardown == ~mounted => ~observerConnected

\* nothing is scheduled for the sizer: no animation-frame callback waits or
\* runs and no re-render is due
SizerQuiescent ==
    /\ rafQueue = <<>> /\ frameQueue = <<>>
    /\ ~homeRenderPending
    /\ videoAspectRatio = effectRatio
    /\ dimensions = renderedDimensions

\* C23: when the sizer of a mounted VideoComponent has come to rest on a
\* positive geometry {w, h}, the video's inline box is 1.2 w by 1.2 h.
RenderedBoxEnlarged ==
    (mounted /\ SizerQuiescent /\ validSize(dimensions.width, dimensions.height))
        => /\ videoStyle.width = Px(Enlarged(<<dimensions.width, 1>>))
           /\ videoStyle.height = Px(Enlarged(dimensions.height))

\* C26: once videoAspectRatio is set on a mounted VideoComponent, an animation
\* frame with a recompute pass eventually runs though no resize signal ever
\* occurs (unless the component is unmounted first), and a pass that resolves
\* to a positive size publishes it.
InitialPass ==
    /\ (mounted /\ videoAspectRatio # Null) ~> (framePasses.passes > 0 \/ ~mounted)
    /\ [](pass.ran /\ validSize(pass.width, pass.height) => pass.published)

\* C26 witness: the single pass of a frame published a positive size on a
\* mounted component.
InitialPassSeen ==
    /\ mounted /\ pass.ran /\ pass.published
    /\ framePasses.passes = 1 /\ dimensions.width > 0

\* C29: left to themselves, the sizer and HomePage come to rest: from some
\* point on no animation-frame callback, no observer notification and no
\* re-render is outstanding.
FeedbackSettles == <>[](SizerQuiescent /\ ~observerOwes)

\* C29 witness: at rest on a mounted component after the published height
\* made HomePage re-render and a further pass published the same size again.
SettledAfterFeedbackSeen ==
    /\ mounted /\ SizerQuiescent /\ ~observerOwes
    /\ heroHeight # Null /\ notify.count >= 2

\* C18: a rejected play request changes nothing: after a step whose play()
\* was rejected, hasPlayedOnce, the pause state and the position are as before
\* the step, and isHovered, isInView and loop are as the handler's own writes
\* before the call left them.
RejectedPlayIsLocal ==
    [][(last'.play /\ ~last'.allowed) =>
          /\ hasPlayedOnce' = hasPlayedOnce
          /\ isHovered' = (isHovered \/ last'.event = "mouseenter")
          /\ isInView' = (isInView \/ last'.event = "intersection")
          /\ video'.loop = IF last'.event = "mouseenter" THEN TRUE
                           ELSE IF last'.event = "timer" THEN video.loop
                           ELSE FALSE
          /\ video'.paused = video.paused
          /\ video'.position = video.position]_vars

\* C18 witness: the play() of a pointer-enter was rejected; the item is
\* hovered with loop on and the video still paused.
RejectedHoverPlaySeen ==
    /\ last.event = "mouseenter" /\ last.play /\ ~last.allowed
    /\ isHovered /\ video.loop /\ video.paused

\* C19: every play() request is made on a video whose readyState is at
\* least 2.
PlayChecksReadiness == last.play => video.readyState >= 2

\* C20: after unmount neither the window resize listener nor the
\* ResizeObserver of the instance is registered.
DetachedAfterUnmount == ~mounted => ~resizeListener /\ ~observerConnected

\* C20 witness: unmounted after the geometry effect ran with an aspect ratio
\* and again after a HomePage re-render that followed a published height.
UnmountAfterRerunsSeen ==
    /\ ~mounted /\ effectRatio # Null /\ heroHeight # Null /\ ~homeRenderPending
    /\ ~resizeListener /\ ~observerConnected

\* C21: after an intersection event isInView is what the observer reported:
\* true for intersecting, false for not intersecting.
InViewFollowsIntersection == last.event = "intersection" => isInView = intersecting

\* C24: whenever a mounted item is hovered, its video's loop flag is true.
HoverKeepsLoop == (itemMounted /\ isHovered) => video.loop

\* C25: a pointer-enter that follows an earlier pointer-leave finds the play
\* position at zero.
RepeatedHoverFromZero ==
    [][(onMouseEnter /\ hoverHistory # "none") => video.position = "start"]_vars

\* C27: since a pointer-leave, and until a pointer-enter or a viewport entry,
\* the video is paused at position zero.
RestsAfterLeave == hoverHistory = "resting" => video.paused /\ video.position = "start"

-----------------------------------------------------------------------------
(* Properties of the footer video *)

\* C17: a triggering event of a controlled media element sets at most one
\* timer-based play retry.
RetryBounded == footerLast.scheduled <= 1

\* C28: while the footer section was last reported out of view (or was never
\* reported in view), the mounted footer video is not playing.
FooterPausedOutOfView == (footerMounted /\ ~isFooterInView) => footerVideo.paused

-----------------------------------------------------------------------------
(* Properties of App *)

\* C30: selectedProject is non-null exactly when currentPage is 'project'.
PageSelectionInvariant == (selectedProject # {}) <=> (currentPage = "project")

====
